---- MODULE Spec2Model ----
(***************************************************************************)
(* Model of the document-retrieval core of wiseia-v2-backend: the JSON     *)
(* corpus store and its search (src/ai/ragService.ts, corpusStore.ts), the *)
(* SQL-backed RAG fetch (src/src/ai/ragService.ts), the scope built by the *)
(* chat route (src/src/routes/aiV2.ts), the document-reading routes and    *)
(* the per-document ingestion (documents.ingest.service.ts).               *)
(***************************************************************************)
EXTENDS Integers, FiniteSets, Sequences, TLC

\* null / undefined of the source
NULL == 0

\* ---- bounds of the model ----
MaxTenant == 2
MaxDept == 2
MaxDiv == 1
MaxUser == 1
MaxCategory == 1
MaxDocs == 2
MaxChunks == 1
MaxProcs == 2
MaxIngestChunks == 2
MaxJobs == 2
MaxRankText == 1
MaxCands == 2
MaxAnalyzeDocs == 7
MaxLexText == 2
MaxResults == 2
MaxContextChars == 140
MaxChunkText == 4
MaxChunkSize == 3
MaxOverlap == 3
MaxLoopText == 3
MaxLoopPushed == 2
MaxTicks == 3
MaxPending == 1
MaxBulkDocs == 4
MaxModelChunks == 3
MaxStoreProcs == 2
MaxStoreChunks == 2

Tenants == 1..MaxTenant
Depts == 1..MaxDept
Divs == 1..MaxDiv
Users == 1..MaxUser
Categories == 1..MaxCategory
DocIds == 1..MaxDocs

\* the five recognised roles of the platform and one unrecognised role string;
\* the routes spell them SUPER_ADMIN/superuser, MASTER/master, MANAGER/manager,
\* COORDINATOR/coordinator, USER/user
Roles == {"SUPER_ADMIN", "MASTER", "MANAGER", "COORDINATOR", "USER", "GUEST"}

Opt(S) == S \cup {NULL}

\* the caller identity decoded from the JWT (DecodedToken)
Identity ==
  [id : Users, role : Roles, companyId : Opt(Tenants),
   departmentId : Opt(Depts), divisionId : Opt(Divs)]

VARIABLES
  corpus,     \* ai_data/ai_corpus.json: [documents, chunks]
  searchOut,  \* what the last search() filtered: [called, filters, chunks]
  sqlDocs,    \* the Documents table: rows [id, companyId, departmentId, divisionId, ownerUserId]
  ragOut,     \* the last RAG fetch on the SQL store: [op, user, scope, docs]
  chatOut,    \* the scope POST /ai/v2/chat built last: [op, user, filters, scope]
  readOut,    \* the last document-reading reply: [op, user, docs]
  chunkTbl,   \* the Chunks table: rows [documentId, orderIndex, run]
  embTbl,     \* the ChunkEmbeddings table: the chunk rows that have an embedding
  ing,        \* the calls of ingestDocumentById: [pc, documentId, n, i, prior]
  docStatus,  \* Documents.Status of the upload back end, per DocumentID ("absent": no row)
  docChunkTbl,\* the DocumentChunks table: rows [documentId, chunkIndex, run]
  job,        \* the upload / processing jobs: [pc, kind, documentId, n, i, result]
  rk,         \* one ranking request: its inputs, its ranked list, its answer
  lex,        \* one search over two chunks that share their embedding
  ctx,        \* one call of buildContext: its inputs, the blocks taken, the length
  chk,        \* one call of a chunker: its text, its sizes, the chunks emitted
  lp,         \* one call of a window chunker, step by step: [pc, fn, clean, ...]
  cache,      \* the embedding cache, the clock, the last lookup, the insert history
  bulk,       \* one bulk run: [pc, path, n, i, processed, errors, results, attempts, replied]
  mdl,        \* embedding models: [env, rows of ChunkEmbeddings, queryModel, scored]
  store       \* the corpus file and the calls working on it: [file, procs]

ingestVars == <<chunkTbl, embTbl, ing>>

processVars == <<docStatus, docChunkTbl, job>>

vars == <<corpus, searchOut, sqlDocs, ragOut, chatOut, readOut, chunkTbl, embTbl, ing,
          docStatus, docChunkTbl, job, rk, lex, ctx, chk, lp, cache, bulk, mdl, store>>

\* ------------------------------------------------------------------
\* JSON corpus store (corpusStore.ts) and ingestion (ragService.ts)
\* ------------------------------------------------------------------

\* createEmptyCorpus(): no documents, no chunks
createEmptyCorpus == [documents |-> {}, chunks |-> {}]

\* the options ingestBufferAsDocument accepts (the fields that scope a document)
IngestOptions ==
  [companyId : Opt(Tenants), departmentId : Opt(Depts), divisionId : Opt(Divs),
   uploadedBy : Opt(Users), category : Opt(Categories), nChunks : 1..MaxChunks]

\* the DocumentRecord built from the options: every absent option becomes null
\* (companyId ?? null, ...), ownerUserId is uploadedBy
DocumentRecord(docId, o) ==
  [docId |-> docId,
   departmentId |-> o.departmentId,
   category |-> o.category,
   companyId |-> o.companyId,
   divisionId |-> o.divisionId,
   ownerUserId |-> o.uploadedBy]

\* the ChunkRecords of a document: chunkId = docId_c<i>, index i
ChunkRecords(docId, n) == {[docId |-> docId, index |-> i] : i \in 0..(n - 1)}

\* upsertDocumentWithChunks: documents[docId] = doc, chunks[chunkId] = c
upsertDocumentWithChunks(c, doc, chunks) ==
  [documents |-> {d \in c.documents : d.docId # doc.docId} \cup {doc},
   chunks |-> c.chunks \cup chunks]

\* a fresh docId (crypto.randomUUID): never one already in the corpus
NewDocId == Cardinality(corpus.documents) + 1

\* bound on a run: the stores are built, then one request is handled and its
\* reply observed; no step follows a reply
NoReply ==
  /\ ~searchOut.called
  /\ ragOut.op = "none"
  /\ chatOut.op = "none"
  /\ readOut.op = "none"

\* ingestBufferAsDocument(options)
ingestBufferAsDocument(o) ==
  /\ corpus' = upsertDocumentWithChunks(corpus, DocumentRecord(NewDocId, o),
                                        ChunkRecords(NewDocId, o.nChunks))
  /\ UNCHANGED <<searchOut, sqlDocs, ragOut, chatOut, readOut, ingestVars, processVars, rk, lex, ctx, chk, lp, cache, bulk, mdl, store>>

\* POST /ai/v2/ingest: passes departmentId, category and uploadedBy only;
\* companyId and divisionId are read from the body and never handed on
PostAiV2Ingest ==
  /\ NoReply
  /\ Cardinality(corpus.documents) < MaxDocs
  /\ \E dep \in Opt(Depts), cat \in Opt(Categories), up \in Opt(Users), n \in 1..MaxChunks :
    ingestBufferAsDocument([companyId |-> NULL, departmentId |-> dep,
                            divisionId |-> NULL, uploadedBy |-> up,
                            category |-> cat, nChunks |-> n])

\* a direct call of the exported ingestBufferAsDocument, any options
IngestDirect ==
  /\ NoReply
  /\ Cardinality(corpus.documents) < MaxDocs
  /\ \E o \in IngestOptions : ingestBufferAsDocument(o)

\* ------------------------------------------------------------------
\* search(): the candidate filter (ragService.ts of the corpus back end)
\* ------------------------------------------------------------------

SearchFilters ==
  [companyId : Opt(Tenants), departmentId : Opt(Depts), divisionId : Opt(Divs),
   ownerUserId : Opt(Users), category : Opt(Categories)]

NoFilters ==
  [companyId |-> NULL, departmentId |-> NULL, divisionId |-> NULL,
   ownerUserId |-> NULL, category |-> NULL]

\* one document passes the filters: each filter applies only when it is not null
PassesFilters(doc, f) ==
  /\ ~(f.companyId # NULL /\ doc.companyId # f.companyId)
  /\ ~(f.departmentId # NULL /\ doc.departmentId # f.departmentId)
  /\ ~(f.divisionId # NULL /\ doc.divisionId # f.divisionId)
  /\ ~(f.ownerUserId # NULL /\ doc.ownerUserId # f.ownerUserId)
  /\ ~(f.category # NULL /\ doc.category # f.category)

\* the document of a chunk (corpus.documents[chunk.docId]), as a set of 0 or 1
DocOf(c, chunk) == {d \in c.documents : d.docId = chunk.docId}

\* filtered: the chunks whose document exists and passes the filters
SearchFiltered(c, f) ==
  {k \in c.chunks : \E d \in DocOf(c, k) : PassesFilters(d, f)}

\* search(query, topK, filters): the candidate fetch
Search ==
  /\ NoReply
  /\ \E f \in SearchFilters :
      /\ searchOut' = [called |-> TRUE, filters |-> f, chunks |-> SearchFiltered(corpus, f)]
      /\ UNCHANGED <<corpus, sqlDocs, ragOut, chatOut, readOut, ingestVars, processVars, rk, lex, ctx, chk, lp, cache, bulk, mdl, store>>

\* ------------------------------------------------------------------
\* SQL document store: upload (documentRoutes.ts) and the RAG fetch
\* (src/src/ai/ragService.ts, routes of /api/v1/ai)
\* ------------------------------------------------------------------

\* POST /documents/upload: a user without a company is rejected; the row takes
\* CompanyId, DepartmentId, DivisionId and OwnerUserId from the token
UploadDocument ==
  /\ NoReply
  /\ Cardinality(sqlDocs) < MaxDocs
  /\ \E user \in Identity :
    /\ user.companyId # NULL
    /\ sqlDocs' = sqlDocs \cup
         {[id |-> Cardinality(sqlDocs) + 1,
           companyId |-> user.companyId,
           departmentId |-> user.departmentId,
           divisionId |-> user.divisionId,
           ownerUserId |-> user.id]}
    /\ UNCHANGED <<corpus, searchOut, ragOut, chatOut, readOut, ingestVars, processVars, rk, lex, ctx, chk, lp, cache, bulk, mdl, store>>

\* RagScope: companyId, and the optional department, division, ownerUserId and
\* documentIds (an empty list is no filter)
RagScope ==
  [companyId : Opt(Tenants), department : Opt(Depts), division : Opt(Divs),
   ownerUserId : Opt(Users), documentIds : {{}} \cup {{i} : i \in DocIds}]

\* the WHERE clause of getChunksFromDatabase on one row: CompanyID always,
\* DocumentID IN (...) and Department when given; division and ownerUserId of
\* the scope are not read. A NULL column or parameter never equals anything.
RowInWhere(row, scope) ==
  /\ scope.companyId # NULL /\ row.companyId = scope.companyId
  /\ (scope.documentIds # {} => row.id \in scope.documentIds)
  /\ (scope.department # NULL => row.departmentId = scope.department)

\* getChunksFromDatabase(scope): the documents whose chunks are returned
getChunksFromDatabase(rows, scope) == {r \in rows : RowInWhere(r, scope)}

\* askWithRag / semanticSearch called with a scope
AskWithRag ==
  /\ NoReply
  /\ \E scope \in RagScope :
      /\ ragOut' = [op |-> "ask", user |-> NULL, scope |-> scope,
                    docs |-> getChunksFromDatabase(sqlDocs, scope)]
      /\ UNCHANGED <<corpus, searchOut, sqlDocs, chatOut, readOut, ingestVars, processVars, rk, lex, ctx, chk, lp, cache, bulk, mdl, store>>

\* the scope POST /api/v1/ai/chat builds: companyId of the token, department and
\* documentIds of the body, whatever the caller's role
AiChatScope(user, body) ==
  [companyId |-> user.companyId, department |-> body.department,
   division |-> NULL, ownerUserId |-> NULL, documentIds |-> body.documentIds]

\* POST /api/v1/ai/chat
PostAiChat ==
  /\ NoReply
  /\ \E user \in Identity, dep \in Opt(Depts), ids \in {{}} \cup {{i} : i \in DocIds} :
      LET scope == AiChatScope(user, [department |-> dep, documentIds |-> ids]) IN
      /\ ragOut' = [op |-> "chat", user |-> user, scope |-> scope,
                    docs |-> getChunksFromDatabase(sqlDocs, scope)]
      /\ UNCHANGED <<corpus, searchOut, sqlDocs, chatOut, readOut, ingestVars, processVars, rk, lex, ctx, chk, lp, cache, bulk, mdl, store>>

\* ------------------------------------------------------------------
\* POST /ai/v2/chat: the scope sent to the answering service (aiV2.ts)
\* ------------------------------------------------------------------

\* the tenant used when the merged filters hold none (filters.companyId ?? 1)
DefaultCompanyId == 1

\* body.filters: the fields the route reads
BodyFilters ==
  [companyId : Opt(Tenants), departmentId : Opt(Depts), divisionId : Opt(Divs),
   ownerUserId : Opt(Users), department : Opt(Depts), division : Opt(Divs)]

NoBodyFilters ==
  [companyId |-> NULL, departmentId |-> NULL, divisionId |-> NULL,
   ownerUserId |-> NULL, department |-> NULL, division |-> NULL]

\* the merge of the identity into the caller's filters: a field is taken from the
\* identity only when the caller left it null
MergeFilters(user, f) ==
  [companyId |->
     IF user.companyId # NULL /\ f.companyId = NULL THEN user.companyId ELSE f.companyId,
   departmentId |->
     IF /\ user.role \in {"MANAGER", "COORDINATOR", "USER"}
        /\ user.departmentId # NULL /\ f.departmentId = NULL
     THEN user.departmentId ELSE f.departmentId,
   divisionId |->
     IF /\ user.role \in {"COORDINATOR", "USER"}
        /\ user.divisionId # NULL /\ f.divisionId = NULL
     THEN user.divisionId ELSE f.divisionId,
   ownerUserId |->
     IF user.role = "USER" /\ user.id # NULL /\ f.ownerUserId = NULL
     THEN user.id ELSE f.ownerUserId,
   department |-> f.department,
   division |-> f.division]

\* the scope object: companyId defaults to 1, department/division prefer the
\* caller's department/division strings over the ids
ScopeOf(f) ==
  [companyId |-> IF f.companyId # NULL THEN f.companyId ELSE DefaultCompanyId,
   department |-> IF f.department # NULL THEN f.department ELSE f.departmentId,
   division |-> IF f.division # NULL THEN f.division ELSE f.divisionId,
   ownerUserId |-> f.ownerUserId,
   documentIds |-> {}]

ChatScope(user, f) == ScopeOf(MergeFilters(user, f))

\* POST /ai/v2/chat with an authenticated user
PostAiV2Chat ==
  /\ NoReply
  /\ \E user \in Identity, f \in BodyFilters :
      /\ chatOut' = [op |-> "chat", user |-> user, filters |-> f,
                     scope |-> ChatScope(user, f)]
      /\ UNCHANGED <<corpus, searchOut, sqlDocs, ragOut, readOut, ingestVars, processVars, rk, lex, ctx, chk, lp, cache, bulk, mdl, store>>

\* ------------------------------------------------------------------
\* Document-reading routes: GET /documents (api/v1/documents.routes.ts) and
\* GET /documents/:id (documents.service.ts)
\* ------------------------------------------------------------------

\* the role filter of GET /documents on one row; the permission row of a
\* document is its (department, division, user); a NULL never equals anything
RoleFilter(row, user) ==
  CASE user.role = "SUPER_ADMIN" -> FALSE
    [] user.role = "MASTER" ->
         user.companyId # NULL /\ row.companyId = user.companyId
    [] user.role = "MANAGER" ->
         /\ user.companyId # NULL /\ row.companyId = user.companyId
         /\ user.departmentId # NULL /\ row.departmentId = user.departmentId
    [] user.role = "COORDINATOR" ->
         /\ user.companyId # NULL /\ row.companyId = user.companyId
         /\ user.divisionId # NULL /\ row.divisionId = user.divisionId
    [] OTHER ->
         /\ user.companyId # NULL /\ row.companyId = user.companyId
         /\ row.ownerUserId = user.id

\* the frontend filters of GET /documents, added to the role filter
FrontendFilter(row, q) ==
  /\ (q.departmentId # NULL => row.departmentId = q.departmentId)
  /\ (q.divisionId # NULL => row.divisionId = q.divisionId)

\* GET /documents
GetDocuments ==
  /\ NoReply
  /\ \E user \in Identity, q \in [departmentId : Opt(Depts), divisionId : Opt(Divs)] :
      /\ readOut' = [op |-> "list", user |-> user,
                     docs |-> {r \in sqlDocs : RoleFilter(r, user) /\ FrontendFilter(r, q)}]
      /\ UNCHANGED <<corpus, searchOut, sqlDocs, ragOut, chatOut, ingestVars, processVars, rk, lex, ctx, chk, lp, cache, bulk, mdl, store>>

\* the permission test of getDocumentByIdService
MayRead(row, user) ==
  LET isOwner == row.ownerUserId = user.id
      sameDept == row.departmentId = user.departmentId
      sameDivision == row.divisionId = NULL \/ row.divisionId = user.divisionId
      isMaster == user.role = "MASTER"
      isAdmin == user.role = "ADMIN"
      isSuper == user.role = "SUPER_ADMIN"
  IN isOwner \/ sameDept \/ sameDivision \/ isMaster \/ isAdmin \/ isSuper

\* getDocumentByIdService(documentId, user): the document or null
getDocumentByIdService(rows, documentId, user) ==
  {r \in rows : r.id = documentId /\ MayRead(r, user)}

\* GET /documents/:id
GetDocumentById ==
  /\ NoReply
  /\ \E user \in Identity, documentId \in DocIds :
      /\ readOut' = [op |-> "detail", user |-> user,
                     docs |-> getDocumentByIdService(sqlDocs, documentId, user)]
      /\ UNCHANGED <<corpus, searchOut, sqlDocs, ragOut, chatOut, ingestVars, processVars, rk, lex, ctx, chk, lp, cache, bulk, mdl, store>>

\* GET /documents/:id/chunks: the chunks of the document with that id; docs
\* holds the documents whose chunk texts the reply carries
GetDocumentChunks ==
  /\ NoReply
  /\ \E user \in Identity, documentId \in DocIds :
      /\ readOut' = [op |-> "chunks", user |-> user,
                     docs |-> {r \in sqlDocs : r.id = documentId}]
      /\ UNCHANGED <<corpus, searchOut, sqlDocs, ragOut, chatOut, ingestVars, processVars, rk, lex, ctx, chk, lp, cache, bulk, mdl, store>>

\* ------------------------------------------------------------------
\* ingestDocumentById (documents.ingest.service.ts) on the Chunks and
\* ChunkEmbeddings tables (documents.repository.ts). Every await is a point
\* where another call may run; every awaited step may throw.
\* ------------------------------------------------------------------

Procs == 1..MaxProcs

\* the chunk rows of a document
ChunksOf(tbl, documentId) == {c \in tbl : c.documentId = documentId}

\* the rows a complete run of call p leaves: one chunk per index
NewRows(p) == {[documentId |-> ing[p].documentId, orderIndex |-> i, run |-> p] :
                 i \in 0..(ing[p].n - 1)}

\* getDocumentOcrText + createChunks: n >= 1 chunks of a text that is not blank
StartIngest(p) ==
  /\ ing[p].pc = "idle"
  /\ \E documentId \in DocIds, n \in 1..MaxIngestChunks :
       ing' = [ing EXCEPT ![p] = [pc |-> "chunked", documentId |-> documentId, n |-> n,
                                  i |-> 0, prior |-> ChunksOf(chunkTbl, documentId),
                                  requests |-> 0]]
  /\ UNCHANGED <<corpus, searchOut, sqlDocs, ragOut, chatOut, readOut, chunkTbl, embTbl, processVars, rk, lex, ctx, chk, lp, cache, bulk, mdl, store>>

\* deleteChunksAndEmbeddingsForDocument: embeddings of the document's chunks,
\* then the chunks
deleteChunksAndEmbeddingsForDocument(p) ==
  /\ ing[p].pc = "chunked"
  /\ embTbl' = embTbl \ ChunksOf(chunkTbl, ing[p].documentId)
  /\ chunkTbl' = chunkTbl \ ChunksOf(chunkTbl, ing[p].documentId)
  /\ ing' = [ing EXCEPT ![p].pc = "loop"]
  /\ UNCHANGED <<corpus, searchOut, sqlDocs, ragOut, chatOut, readOut, processVars, rk, lex, ctx, chk, lp, cache, bulk, mdl, store>>

\* insertChunk(documentId, i, chunkText): a new row with a new ChunkId
insertChunk(p) ==
  /\ ing[p].pc = "loop"
  /\ ing[p].i < ing[p].n
  /\ chunkTbl' = chunkTbl \cup
       {[documentId |-> ing[p].documentId, orderIndex |-> ing[p].i, run |-> p]}
  /\ ing' = [ing EXCEPT ![p].pc = "inserted"]
  /\ UNCHANGED <<corpus, searchOut, sqlDocs, ragOut, chatOut, readOut, embTbl, processVars, rk, lex, ctx, chk, lp, cache, bulk, mdl, store>>

\* embedText(chunkText): one request to the embeddings endpoint with this one
\* chunk as input; the remote call returns a vector
embedText(p) ==
  /\ ing[p].pc = "inserted"
  /\ ing' = [ing EXCEPT ![p].pc = "embedded", ![p].requests = @ + 1]
  /\ UNCHANGED <<corpus, searchOut, sqlDocs, ragOut, chatOut, readOut, chunkTbl, embTbl, processVars, rk, lex, ctx, chk, lp, cache, bulk, mdl, store>>

\* insertChunkEmbedding(chunkId, embedding, ...), then the next index
insertChunkEmbedding(p) ==
  /\ ing[p].pc = "embedded"
  /\ embTbl' = embTbl \cup
       {[documentId |-> ing[p].documentId, orderIndex |-> ing[p].i, run |-> p]}
  /\ ing' = [ing EXCEPT ![p].pc = "loop", ![p].i = ing[p].i + 1]
  /\ UNCHANGED <<corpus, searchOut, sqlDocs, ragOut, chatOut, readOut, chunkTbl, processVars, rk, lex, ctx, chk, lp, cache, bulk, mdl, store>>

\* the loop ends and the result is returned
FinishIngest(p) ==
  /\ ing[p].pc = "loop"
  /\ ing[p].i = ing[p].n
  /\ ing' = [ing EXCEPT ![p].pc = "done"]
  /\ UNCHANGED <<corpus, searchOut, sqlDocs, ragOut, chatOut, readOut, chunkTbl, embTbl, processVars, rk, lex, ctx, chk, lp, cache, bulk, mdl, store>>

\* the awaited step throws (no OCR text, a storage error, no API key, an empty
\* embedding reply): the call ends, nothing is undone
FailIngest(p) ==
  /\ \/ ing[p].pc \in {"chunked", "inserted", "embedded"}
     \/ ing[p].pc = "loop" /\ ing[p].i < ing[p].n
  /\ ing' = [ing EXCEPT ![p].pc = "failed"]
  /\ UNCHANGED <<corpus, searchOut, sqlDocs, ragOut, chatOut, readOut, chunkTbl, embTbl, processVars, rk, lex, ctx, chk, lp, cache, bulk, mdl, store>>

\* ------------------------------------------------------------------
\* Upload and processing on the DocumentChunks table: POST /documents and
\* processDocumentAsync (api/v1/documents.routes.ts), processDocument
\* (documentProcessor.ts). Every await is a point where another job may run.
\* ------------------------------------------------------------------

Jobs == 1..MaxJobs

IdleJob == [pc |-> "idle", kind |-> "none", documentId |-> NULL, n |-> 0, i |-> 0,
            result |-> "none"]

\* the chunk rows of a document in DocumentChunks
DocChunksOf(tbl, documentId) == {c \in tbl : c.documentId = documentId}

\* POST /documents: the row is inserted with Status = 'processing' under a new
\* DocumentID (randomUUID)
PostDocumentsInsert(j) ==
  /\ job[j].pc = "idle"
  /\ \E d \in DocIds :
       /\ docStatus[d] = "absent"
       /\ docStatus' = [docStatus EXCEPT ![d] = "processing"]
       /\ job' = [job EXCEPT ![j] = [IdleJob EXCEPT !.pc = "validate", !.kind = "upload",
                                                     !.documentId = d]]
  /\ UNCHANGED <<corpus, searchOut, sqlDocs, ragOut, chatOut, readOut, ingestVars,
                 docChunkTbl, rk, lex, ctx, chk, lp, cache, bulk, mdl, store>>

\* POST /documents after the insert: no department selected (400), or saving the
\* permissions throws (500): the handler replies, the row stays as inserted
PostDocumentsReject(j) ==
  /\ job[j].pc = "validate"
  /\ job' = [job EXCEPT ![j].pc = "ended", ![j].result = "rejected"]
  /\ UNCHANGED <<corpus, searchOut, sqlDocs, ragOut, chatOut, readOut, ingestVars,
                 docStatus, docChunkTbl, rk, lex, ctx, chk, lp, cache, bulk, mdl, store>>

\* POST /documents: permissions saved, processDocumentAsync scheduled, 201 sent
PostDocumentsAccept(j) ==
  /\ job[j].pc = "validate"
  /\ job' = [job EXCEPT ![j].pc = "extract", ![j].kind = "async"]
  /\ UNCHANGED <<corpus, searchOut, sqlDocs, ragOut, chatOut, readOut, ingestVars,
                 docStatus, docChunkTbl, rk, lex, ctx, chk, lp, cache, bulk, mdl, store>>

\* processDocument(documentId, filePath, fileType) called for a stored document
StartProcessDocument(j) ==
  /\ job[j].pc = "idle"
  /\ \E d \in DocIds :
       /\ docStatus[d] # "absent"
       /\ job' = [job EXCEPT ![j] = [IdleJob EXCEPT !.pc = "extract", !.kind = "process",
                                                     !.documentId = d]]
  /\ UNCHANGED <<corpus, searchOut, sqlDocs, ragOut, chatOut, readOut, ingestVars,
                 docStatus, docChunkTbl, rk, lex, ctx, chk, lp, cache, bulk, mdl, store>>

\* extractText + chunkText: a text of n >= 1 chunks
ExtractText(j) ==
  /\ job[j].pc = "extract"
  /\ \E n \in 1..MaxIngestChunks :
       job' = [job EXCEPT ![j].pc = "insert", ![j].n = n, ![j].i = 0]
  /\ UNCHANGED <<corpus, searchOut, sqlDocs, ragOut, chatOut, readOut, ingestVars,
                 docStatus, docChunkTbl, rk, lex, ctx, chk, lp, cache, bulk, mdl, store>>

\* no text extracted: processDocumentAsync throws into its catch; processDocument
\* returns { success: false } and leaves the status alone
ExtractNoText(j) ==
  /\ job[j].pc = "extract"
  /\ job' = [job EXCEPT ![j].pc = IF job[j].kind = "async" THEN "catch" ELSE "ended",
                        ![j].result = "no text"]
  /\ UNCHANGED <<corpus, searchOut, sqlDocs, ragOut, chatOut, readOut, ingestVars,
                 docStatus, docChunkTbl, rk, lex, ctx, chk, lp, cache, bulk, mdl, store>>

\* one INSERT INTO DocumentChunks of the loop; nothing is deleted before it
InsertDocumentChunk(j) ==
  /\ job[j].pc = "insert"
  /\ job[j].i < job[j].n
  /\ docChunkTbl' = docChunkTbl \cup
       {[documentId |-> job[j].documentId, chunkIndex |-> job[j].i, run |-> j]}
  /\ job' = [job EXCEPT ![j].i = job[j].i + 1]
  /\ UNCHANGED <<corpus, searchOut, sqlDocs, ragOut, chatOut, readOut, ingestVars,
                 docStatus, rk, lex, ctx, chk, lp, cache, bulk, mdl, store>>

\* UPDATE Documents SET Status = 'processed'
MarkProcessed(j) ==
  /\ job[j].pc = "insert"
  /\ job[j].i = job[j].n
  /\ docStatus' = [docStatus EXCEPT ![job[j].documentId] = "processed"]
  /\ job' = [job EXCEPT ![j].pc = "ended", ![j].result = "processed"]
  /\ UNCHANGED <<corpus, searchOut, sqlDocs, ragOut, chatOut, readOut, ingestVars,
                 docChunkTbl, rk, lex, ctx, chk, lp, cache, bulk, mdl, store>>

\* an awaited step of the try block throws (extraction, an insert, the update)
ProcessThrows(j) ==
  /\ job[j].pc \in {"extract", "insert"}
  /\ job' = [job EXCEPT ![j].pc = "catch", ![j].result = "error"]
  /\ UNCHANGED <<corpus, searchOut, sqlDocs, ragOut, chatOut, readOut, ingestVars,
                 docStatus, docChunkTbl, rk, lex, ctx, chk, lp, cache, bulk, mdl, store>>

\* the catch block: UPDATE Documents SET Status = 'error', ProcessingError
CatchMarkError(j) ==
  /\ job[j].pc = "catch"
  /\ docStatus' = [docStatus EXCEPT ![job[j].documentId] = "error"]
  /\ job' = [job EXCEPT ![j].pc = "ended"]
  /\ UNCHANGED <<corpus, searchOut, sqlDocs, ragOut, chatOut, readOut, ingestVars,
                 docChunkTbl, rk, lex, ctx, chk, lp, cache, bulk, mdl, store>>

\* the catch block's own update throws: it is logged and swallowed
CatchUpdateFails(j) ==
  /\ job[j].pc = "catch"
  /\ job' = [job EXCEPT ![j].pc = "ended"]
  /\ UNCHANGED <<corpus, searchOut, sqlDocs, ragOut, chatOut, readOut, ingestVars,
                 docStatus, docChunkTbl, rk, lex, ctx, chk, lp, cache, bulk, mdl, store>>

\* ------------------------------------------------------------------
\* Ranking: cosineSimilarity, scoreBySubstring, search (corpus ragService.ts);
\* cosineSimilarity, askWithRag, semanticSearch (SQL ragService.ts).
\* A text is a sequence of characters. A score is an integer in thousandths;
\* a final score is in hundred-thousandths (weight in hundredths x score in
\* thousandths). A JavaScript number is [nan, h] with h its value in halves,
\* so that 0.5 and 1.5 are values.
\* ------------------------------------------------------------------

Min(a, b) == IF a < b THEN a ELSE b

Max(a, b) == IF a > b THEN a ELSE b

Alphabet == {"a", "b", "A", " "}

\* all texts of at most n characters
TextsUpTo(n) == UNION {[1..k -> Alphabet] : k \in 0..n}

\* String.prototype.toLowerCase
toLowerCase(s) == [i \in DOMAIN s |-> IF s[i] = "A" THEN "a" ELSE s[i]]

\* String.prototype.includes: the empty string is included in every string
includes(t, q) ==
  \E i \in 1..(Len(t) - Len(q) + 1) : SubSeq(t, i, i + Len(q) - 1) = q

\* q.split(/\s+/).filter(Boolean): the positions where a term starts, and the
\* term starting there
TermStarts(q) == {i \in 1..Len(q) : q[i] # " " /\ (i = 1 \/ q[i - 1] = " ")}

TermAt(q, i) ==
  LET j == CHOOSE j \in i..Len(q) :
             /\ \A k \in i..j : q[k] # " "
             /\ (j = Len(q) \/ q[j + 1] = " ")
  IN SubSeq(q, i, j)

\* scoreBySubstring(chunk, query) in thousandths
scoreBySubstring(chunk, query) ==
  LET q == toLowerCase(query)
      t == toLowerCase(chunk)
      terms == TermStarts(q)
      hits == Cardinality({i \in terms : includes(t, TermAt(q, i))})
  IN IF includes(t, q) THEN 1000
     ELSE IF hits = 0 THEN 0
     ELSE (1000 * hits) \div Cardinality(terms)

\* embedding vectors; their norms are whole numbers
Vectors == {<<1, 0>>, <<0, 1>>, <<3, 4>>}

\* the empty vector; it also stands for the null embedding of a chunk stored
\* without one (both score 0 in cosineSimilarity)
NoVector == <<>>

RECURSIVE Dot(_, _, _)
Dot(a, b, n) == IF n = 0 THEN 0 ELSE a[n] * b[n] + Dot(a, b, n - 1)

\* Math.sqrt on the squared norms that occur
Sqrt(x) == CHOOSE r \in 0..x : r * r = x

\* cosineSimilarity of the corpus service, in thousandths
cosineSimilarity(a, b) ==
  IF Len(a) # Len(b) THEN 0
  ELSE LET dot == Dot(a, b, Len(a))
           normA == Dot(a, a, Len(a))
           normB == Dot(b, b, Len(b))
       IN IF normA = 0 \/ normB = 0 THEN 0
          ELSE (1000 * dot) \div (Sqrt(normA) * Sqrt(normB))

\* cosineSimilarity of the SQL service, in thousandths: no length check, and a
\* zero denominator is replaced by 1
ragCosineSimilarity(a, b) ==
  LET dot == Dot(a, b, Len(a))
      normA == Dot(a, a, Len(a))
      normB == Dot(b, b, Len(a))
      den == Sqrt(normA) * Sqrt(normB)
  IN (1000 * dot) \div (IF den = 0 THEN 1 ELSE den)

SemanticWeight == 75

LexicalWeight == 25

ScoreFloor == 35

\* JavaScript numbers in halves
Num(h) == [nan |-> FALSE, h |-> h]

NaN == [nan |-> TRUE, h |-> 0]

\* ToIntegerOrInfinity: NaN is 0, a fraction is cut towards zero
ToInteger(x) ==
  IF x.nan THEN 0
  ELSE IF x.h >= 0 THEN x.h \div 2 ELSE 0 - ((0 - x.h) \div 2)

\* Array.prototype.slice(0, end)
slice(seq, end) ==
  LET rel == ToInteger(end)
      final == IF rel < 0 THEN Max(Len(seq) + rel, 0) ELSE Min(rel, Len(seq))
  IN SubSeq(seq, 1, final)

\* Array.prototype.sort((a, b) => b.score - a.score): stable, non-increasing
SortByScore(seq) ==
  LET n == Len(seq)
      p == CHOOSE p \in [1..n -> 1..n] :
             /\ \A i, j \in 1..n : i # j => p[i] # p[j]
             /\ \A i, j \in 1..n : i < j =>
                  \/ seq[p[i]].score > seq[p[j]].score
                  \/ seq[p[i]].score = seq[p[j]].score /\ p[i] < p[j]
  IN [i \in 1..n |-> seq[p[i]]]

\* finalScore of one candidate in the scoring loop of search
finalScore(c, queryEmbedding, query) ==
  SemanticWeight *
    (IF c.embedding # NoVector THEN cosineSimilarity(queryEmbedding, c.embedding) ELSE 0)
  + LexicalWeight * scoreBySubstring(c.text, query)

\* the scoring loop of search: the candidates with their final score, those
\* at or under the floor dropped
ScoredBySearch(cands, queryEmbedding, query) ==
  LET all == [i \in 1..Len(cands) |->
                [chunk |-> cands[i],
                 score |-> finalScore(cands[i], queryEmbedding, query)]]
      OverFloor(r) == r.score > ScoreFloor * 1000
  IN SelectSeq(all, OverFloor)

\* search after the candidate filter: score, sort, slice(0, topK)
RankBySearch(cands, queryEmbedding, query, topK) ==
  slice(SortByScore(ScoredBySearch(cands, queryEmbedding, query)), topK)

\* askWithRag and semanticSearch: cosine only, sort, slice(0, topK); the score
\* is brought to the unit of the final score
RankByCosine(cands, queryEmbedding, topK) ==
  LET all == [i \in 1..Len(cands) |->
                [chunk |-> cands[i],
                 score |-> 100 * ragCosineSimilarity(queryEmbedding,
                                                     cands[i].embedding)]]
  IN slice(SortByScore(all), topK)

\* the topK values a caller supplies, in halves: -1, -0.5, 0, 0.5, 1, 1.5, 2,
\* 20, 21
TopKHalves == {0 - 2, 0 - 1, 0, 1, 2, 3, 4, 40, 42}

\* a topK or limit of a request body: absent, not a number, or a number
RawTopK ==
  {[given |-> FALSE, v |-> NaN], [given |-> TRUE, v |-> NaN]} \cup
  {[given |-> TRUE, v |-> Num(h)] : h \in TopKHalves}

SearchDefaultTopK == 5

RagDefaultTopK == 5

AiSearchDefaultLimit == 10

AiChatTopK == 5

AiV2DefaultTopK == 10

AiV2MaxTopK == 20

\* a default parameter value: used when the argument is absent
OrDefault(raw, default) == IF raw.given THEN raw.v ELSE Num(2 * default)

\* POST /ai/v2/chat: Number(body.topK), kept when finite, > 0 and <= 20
AiV2TopK(raw) ==
  LET requestedTopK == IF raw.given THEN raw.v ELSE NaN
  IN IF ~requestedTopK.nan /\ requestedTopK.h > 0
        /\ requestedTopK.h <= 2 * AiV2MaxTopK
       THEN requestedTopK
       ELSE Num(2 * AiV2DefaultTopK)

\* analyzeMultipleDocuments: documentIds.length * 3
AnalyzeTopK(nDocs) == Num(2 * (nDocs * 3))

\* the candidates of a ranking: chunks with a text and an embedding
RankTexts == TextsUpTo(MaxRankText)

CandidateLists(embeddings) ==
  UNION {[1..k -> [text : RankTexts, embedding : embeddings]] : k \in 0..MaxCands}

\* String.prototype.trim() is empty
IsBlank(s) == \A i \in DOMAIN s : s[i] = " "

\* the outcomes of the remote embedding call for one text: an error, a response
\* without a vector, a vector
EmbeddingOutcomes ==
  {[kind |-> "error", vector |-> NoVector], [kind |-> "none", vector |-> NoVector]} \cup
  {[kind |-> "vector", vector |-> v] : v \in Vectors}

IdleRank ==
  [pc |-> "idle", path |-> "none", query |-> <<>>, cands |-> <<>>, topK |-> NaN,
   remote |-> "uncalled", queryEmbedding |-> NoVector, results |-> <<>>,
   llmCalls |-> 0, answer |-> "none", reads |-> 0]

\* createQueryEmbedding: const [emb] = await createEmbeddings([text]); emb || []
createQueryEmbedding(outcome) ==
  IF outcome.kind = "vector" THEN outcome.vector ELSE NoVector

\* search(query, topK, filters) of the corpus service, from its candidates on
Search_Rank ==
  /\ rk.pc = "idle"
  /\ \E query \in RankTexts, raw \in RawTopK, cands \in CandidateLists(Vectors \cup {NoVector}),
        outcome \in EmbeddingOutcomes :
       LET topK == OrDefault(raw, SearchDefaultTopK)
           start == [IdleRank EXCEPT !.path = "search", !.query = query,
                                     !.cands = cands, !.topK = topK, !.reads = 1]
       IN IF cands = <<>>
            THEN outcome.kind = "none" /\ rk' = [start EXCEPT !.pc = "ranked"]
          ELSE IF outcome.kind = "error"
            THEN rk' = [start EXCEPT !.pc = "failed", !.remote = "error"]
          ELSE rk' = [start EXCEPT
                        !.pc = "ranked", !.remote = outcome.kind,
                        !.queryEmbedding = createQueryEmbedding(outcome),
                        !.results = RankBySearch(cands, createQueryEmbedding(outcome),
                                                 query, topK)]
  /\ UNCHANGED <<corpus, searchOut, sqlDocs, ragOut, chatOut, readOut, ingestVars,
                 processVars, lex, ctx, chk, lp, cache, bulk, mdl, store>>

\* answerWithLLM(question, results) on the list search returned
answerWithLLM ==
  /\ rk.pc = "ranked"
  /\ rk.path = "search"
  /\ rk' = [rk EXCEPT !.pc = "answered", !.llmCalls = rk.llmCalls + 1, !.answer = "llm"]
  /\ UNCHANGED <<corpus, searchOut, sqlDocs, ragOut, chatOut, readOut, ingestVars,
                 processVars, lex, ctx, chk, lp, cache, bulk, mdl, store>>

\* generateEmbedding: response.data[0].embedding throws when there is no vector
generateEmbeddingThrows(outcome) == outcome.kind # "vector"

\* askWithRag(question, scope, { topK }) from the fetched chunks on; topK comes
\* from POST /ai/chat (5), from analyzeMultipleDocuments, or from a direct call
askWithRag_Rank ==
  /\ rk.pc = "idle"
  /\ \E question \in RankTexts, cands \in CandidateLists(Vectors),
        outcome \in EmbeddingOutcomes,
        topK \in {Num(2 * AiChatTopK)} \cup {AnalyzeTopK(n) : n \in 0..MaxAnalyzeDocs}
                   \cup {OrDefault(raw, RagDefaultTopK) : raw \in RawTopK} :
       LET start == [IdleRank EXCEPT !.path = "askWithRag", !.query = question,
                                     !.cands = cands, !.topK = topK, !.reads = 1]
       IN IF IsBlank(question)
            THEN cands = <<>> /\ outcome.kind = "none"
                 /\ rk' = [start EXCEPT !.pc = "failed", !.reads = 0]
          ELSE IF cands = <<>>
            THEN outcome.kind = "none"
                 /\ rk' = [start EXCEPT !.pc = "answered", !.answer = "fixed"]
          ELSE IF generateEmbeddingThrows(outcome)
            THEN rk' = [start EXCEPT !.pc = "failed", !.remote = outcome.kind]
          ELSE rk' = [start EXCEPT
                        !.pc = "answered", !.remote = "vector",
                        !.queryEmbedding = outcome.vector,
                        !.results = RankByCosine(cands, outcome.vector, topK),
                        !.llmCalls = 1, !.answer = "llm"]
  /\ UNCHANGED <<corpus, searchOut, sqlDocs, ragOut, chatOut, readOut, ingestVars,
                 processVars, lex, ctx, chk, lp, cache, bulk, mdl, store>>

\* semanticSearch(query, scope, limit), called by POST /ai/search (which
\* rejects a blank query and sets limit = 10 when absent) or directly
semanticSearch_Rank ==
  /\ rk.pc = "idle"
  /\ \E query \in RankTexts, cands \in CandidateLists(Vectors),
        outcome \in EmbeddingOutcomes, raw \in RawTopK, direct \in BOOLEAN :
       LET limit == OrDefault(raw, AiSearchDefaultLimit)
           start == [IdleRank EXCEPT !.path = "semanticSearch", !.query = query,
                                     !.cands = cands, !.topK = limit, !.reads = 1]
       IN IF IsBlank(query) /\ ~direct
            THEN cands = <<>> /\ outcome.kind = "none"
                 /\ rk' = [start EXCEPT !.pc = "failed", !.reads = 0]
          ELSE IF cands = <<>>
            THEN outcome.kind = "none" /\ rk' = [start EXCEPT !.pc = "ranked"]
          ELSE IF generateEmbeddingThrows(outcome)
            THEN rk' = [start EXCEPT !.pc = "failed", !.remote = outcome.kind]
          ELSE rk' = [start EXCEPT
                        !.pc = "ranked", !.remote = "vector",
                        !.queryEmbedding = outcome.vector,
                        !.results = RankByCosine(cands, outcome.vector, limit)]
  /\ UNCHANGED <<corpus, searchOut, sqlDocs, ragOut, chatOut, readOut, ingestVars,
                 processVars, lex, ctx, chk, lp, cache, bulk, mdl, store>>

\* POST /ai/v2/chat: the topK it validates and returns with the answer of the
\* external service
PostAiV2Chat_TopK ==
  /\ rk.pc = "idle"
  /\ \E question \in RankTexts, raw \in RawTopK :
       /\ ~IsBlank(question)
       /\ rk' = [IdleRank EXCEPT !.pc = "answered", !.path = "aiV2", !.query = question,
                                 !.topK = AiV2TopK(raw), !.answer = "external"]
  /\ UNCHANGED <<corpus, searchOut, sqlDocs, ragOut, chatOut, readOut, ingestVars,
                 processVars, lex, ctx, chk, lp, cache, bulk, mdl, store>>

\* search(query) over two candidate chunks that share one embedding
LexTexts == TextsUpTo(MaxLexText)

IdleLex == [pc |-> "idle", query |-> <<>>, cands |-> <<>>, queryEmbedding |-> NoVector,
            results |-> <<>>]

Search_Pair ==
  /\ lex.pc = "idle"
  /\ \E query \in LexTexts, t1 \in LexTexts, t2 \in LexTexts, e \in Vectors, qe \in Vectors :
       LET cands == <<[text |-> t1, embedding |-> e], [text |-> t2, embedding |-> e]>>
       IN lex' = [pc |-> "ranked", query |-> query, cands |-> cands,
                  queryEmbedding |-> qe,
                  results |-> RankBySearch(cands, qe, query, Num(2 * SearchDefaultTopK))]
  /\ UNCHANGED <<corpus, searchOut, sqlDocs, ragOut, chatOut, readOut, ingestVars,
                 processVars, rk, ctx, chk, lp, cache, bulk, mdl, store>>

\* ------------------------------------------------------------------
\* buildContext (corpus ragService.ts). A string is modelled by its length;
\* a block keeps which result it comes from and how much of its text it holds.
\* ------------------------------------------------------------------

SnippetMax == 1400

DefaultMaxChars == 6000

\* "doc_" and a UUID of 36 characters
DocIdLength == 40

\* `DOC ${docId} (score=${score.toFixed(3)}):` for a score from 0 to 1
HeaderLength == 4 + DocIdLength + 8 + 5 + 2

\* the text lengths of the chunks handed to buildContext
TextLengths == {0, 1, 2, SnippetMax - 1, SnippetMax, SnippetMax + 1}

ResultLists == UNION {[1..k -> TextLengths] : k \in 0..MaxResults}

\* the loop of buildContext from result i on: the blocks pushed
RECURSIVE BuildParts(_, _, _, _)
BuildParts(results, maxChars, i, count) ==
  IF i > Len(results) THEN <<>>
  ELSE LET snippet == Min(results[i], SnippetMax)
           block == HeaderLength + 1 + snippet + 1 + 3
       IN IF count + block > maxChars THEN <<>>
          ELSE <<[result |-> i, snippet |-> snippet, block |-> block]>>
                 \o BuildParts(results, maxChars, i + 1, count + block)

RECURSIVE SumBlocks(_)
SumBlocks(parts) ==
  IF parts = <<>> THEN 0 ELSE Head(parts).block + SumBlocks(Tail(parts))

\* parts.join("\n"): the blocks and one separator between neighbours
JoinedLength(parts) ==
  IF parts = <<>> THEN 0 ELSE SumBlocks(parts) + (Len(parts) - 1)

IdleContext == [pc |-> "idle", results |-> <<>>, maxChars |-> 0, parts |-> <<>>,
                length |-> 0]

buildContext ==
  /\ ctx.pc = "idle"
  /\ \E results \in ResultLists, maxChars \in (0..MaxContextChars) \cup {DefaultMaxChars} :
       LET parts == BuildParts(results, maxChars, 1, 0)
       IN ctx' = [pc |-> "built", results |-> results, maxChars |-> maxChars,
                  parts |-> parts, length |-> JoinedLength(parts)]
  /\ UNCHANGED <<corpus, searchOut, sqlDocs, ragOut, chatOut, readOut, ingestVars,
                 processVars, rk, lex, chk, lp, cache, bulk, mdl, store>>

\* ------------------------------------------------------------------
\* Chunkers: createChunks (documents.ingest.service.ts) and chunkText
\* (services/textChunker.ts), on texts as sequences of characters.
\* ------------------------------------------------------------------

ChunkAlphabet == {"a", ".", " ", "\t", "\r", "\n"}

ChunkTexts == UNION {[1..k -> ChunkAlphabet] : k \in 0..MaxChunkText}

\* the characters String.prototype.trim and \s take for white space
IsSpace(c) == c \in {" ", "\t", "\r", "\n"}

\* a trim that also cuts the first character it should keep
trimOffByOne(s) ==
  LET keep == {i \in 1..Len(s) : ~IsSpace(s[i])}
  IN IF keep = {} THEN <<>>
     ELSE SubSeq(s, (CHOOSE i \in keep : \A k \in keep : i <= k) + 1,
                    CHOOSE j \in keep : \A k \in keep : j >= k)

\* String.prototype.trim
trim(s) ==
  LET keep == {i \in 1..Len(s) : ~IsSpace(s[i])}
  IN IF keep = {} THEN <<>>
     ELSE SubSeq(s, CHOOSE i \in keep : \A k \in keep : i <= k,
                    CHOOSE j \in keep : \A k \in keep : j >= k)

\* text.replace(/\r\n/g, '\n')
RECURSIVE ReplaceCrLf(_)
ReplaceCrLf(s) ==
  IF s = <<>> THEN <<>>
  ELSE IF Len(s) >= 2 /\ s[1] = "\r" /\ s[2] = "\n"
    THEN <<"\n">> \o ReplaceCrLf(SubSeq(s, 3, Len(s)))
  ELSE <<s[1]>> \o ReplaceCrLf(Tail(s))

\* normalizeText: \r\n to \n, tab to space, trim
normalizeText(text) ==
  LET lf == ReplaceCrLf(text)
  IN trim([i \in DOMAIN lf |-> IF lf[i] = "\t" THEN " " ELSE lf[i]])

\* the loop of createChunks from position start (0-based) on
RECURSIVE CreateChunksFrom(_, _, _, _)
CreateChunksFrom(clean, start, chunkSize, overlap) ==
  IF start >= Len(clean) THEN <<>>
  ELSE LET end == Min(Len(clean), start + chunkSize)
           piece == trim(SubSeq(clean, start + 1, end))
       IN (IF piece # <<>> THEN <<piece>> ELSE <<>>) \o
          (IF end = Len(clean) THEN <<>>
           ELSE CreateChunksFrom(clean, end - overlap, chunkSize, overlap))

createChunks(text, chunkSize, overlap) ==
  CreateChunksFrom(normalizeText(text), 0, chunkSize, overlap)

IdleChunker == [pc |-> "idle", fn |-> "none", text |-> <<>>, size |-> 0, overlap |-> 0,
                chunks |-> <<>>]

\* createChunks(text, chunkSize, overlap) with an overlap under the chunk size
\* (as the defaults 1200 and 200 are)
CreateChunks ==
  /\ chk.pc = "idle"
  /\ \E text \in ChunkTexts, chunkSize \in 1..MaxChunkSize :
       \E overlap \in 0..(chunkSize - 1) :
         chk' = [pc |-> "chunked", fn |-> "createChunks", text |-> text,
                 size |-> chunkSize, overlap |-> overlap,
                 chunks |-> createChunks(text, chunkSize, overlap)]
  /\ UNCHANGED <<corpus, searchOut, sqlDocs, ragOut, chatOut, readOut, ingestVars,
                 processVars, rk, lex, ctx, lp, cache, bulk, mdl, store>>

\* text.split(/\n\n+/): the pieces between runs of two or more newlines
RECURSIVE DropNewlines(_)
DropNewlines(s) ==
  IF s # <<>> /\ s[1] = "\n" THEN DropNewlines(Tail(s)) ELSE s

RECURSIVE SplitParagraphs(_, _)
SplitParagraphs(s, cur) ==
  IF s = <<>> THEN <<cur>>
  ELSE IF Len(s) >= 2 /\ s[1] = "\n" /\ s[2] = "\n"
    THEN <<cur>> \o SplitParagraphs(DropNewlines(s), <<>>)
  ELSE SplitParagraphs(Tail(s), Append(cur, s[1]))

NotBlank(s) == trim(s) # <<>>

\* getOverlap(text, overlapSize); text.slice(-0) is the whole text
getOverlap(text, overlapSize) ==
  IF Len(text) <= overlapSize THEN text
  ELSE LET endPart == IF overlapSize = 0 THEN text
                      ELSE SubSeq(text, Len(text) - overlapSize + 1, Len(text))
           spaces == {i \in 1..Len(endPart) : endPart[i] = " "}
           firstSpace == IF spaces = {} THEN 0 - 1
                         ELSE (CHOOSE i \in spaces : \A k \in spaces : i <= k) - 1
       IN IF firstSpace > 0 /\ 2 * firstSpace < overlapSize
            THEN SubSeq(endPart, firstSpace + 2, Len(endPart))
            ELSE endPart

\* the length of the run of characters satisfying a test at the head of s
RECURSIVE DotRun(_)
DotRun(s) == IF s # <<>> /\ s[1] = "." THEN 1 + DotRun(Tail(s)) ELSE 0

RECURSIVE SpaceRun(_)
SpaceRun(s) == IF s # <<>> /\ IsSpace(s[1]) THEN 1 + SpaceRun(Tail(s)) ELSE 0

\* text.split(/([.!?]+\s+)/): texts and the separators between them
RECURSIVE SplitSentences(_, _)
SplitSentences(s, cur) ==
  IF s = <<>> THEN <<cur>>
  ELSE LET d == DotRun(s)
           w == SpaceRun(SubSeq(s, d + 1, Len(s)))
       IN IF d > 0 /\ w > 0
            THEN <<cur, SubSeq(s, 1, d + w)>>
                   \o SplitSentences(SubSeq(s, d + w + 1, Len(s)), <<>>)
            ELSE SplitSentences(Tail(s), Append(cur, s[1]))

\* splitIntoSentences: blank pieces dropped, then the pieces joined two by two
splitIntoSentences(text) ==
  LET sentences == SelectSeq(SplitSentences(text, <<>>), NotBlank)
      pairs == [k \in 1..((Len(sentences) + 1) \div 2) |->
                  trim(sentences[2 * k - 1] \o
                       (IF 2 * k <= Len(sentences) THEN sentences[2 * k] ELSE <<>>))]
      NotEmpty(x) == x # <<>>
  IN SelectSeq(pairs, NotEmpty)

\* the loop over the sentences of a large paragraph
RECURSIVE SentenceLoop(_, _, _, _, _, _, _)
SentenceLoop(sentences, i, sentenceChunk, previousChunkEnd, chunks, targetSize, overlap) ==
  IF i > Len(sentences)
    THEN [sentenceChunk |-> sentenceChunk, previousChunkEnd |-> previousChunkEnd,
          chunks |-> chunks]
  ELSE IF Len(sentenceChunk) > 0 /\ Len(sentenceChunk) + Len(sentences[i]) > targetSize
    THEN SentenceLoop(sentences, i + 1, sentences[i] \o <<" ">>,
                      getOverlap(sentenceChunk, overlap),
                      Append(chunks, trim(previousChunkEnd \o sentenceChunk)),
                      targetSize, overlap)
  ELSE SentenceLoop(sentences, i + 1, sentenceChunk \o sentences[i] \o <<" ">>,
                    previousChunkEnd, chunks, targetSize, overlap)

\* the loop over the paragraphs, and the final chunk after it
RECURSIVE ParagraphLoop(_, _, _, _, _, _, _)
ParagraphLoop(paragraphs, i, currentChunk, previousChunkEnd, chunks, targetSize, overlap) ==
  IF i > Len(paragraphs)
    THEN IF NotBlank(currentChunk)
           THEN Append(chunks, trim(previousChunkEnd \o currentChunk))
           ELSE chunks
  ELSE LET trimmedParagraph == trim(paragraphs[i])
       IN IF Len(currentChunk) > 0
             /\ Len(currentChunk) + Len(trimmedParagraph) > targetSize
            THEN ParagraphLoop(paragraphs, i + 1, trimmedParagraph \o <<"\n", "\n">>,
                               getOverlap(currentChunk, overlap),
                               Append(chunks, trim(previousChunkEnd \o currentChunk)),
                               targetSize, overlap)
          ELSE IF 2 * Len(trimmedParagraph) > 3 * targetSize
            THEN LET saved == Len(currentChunk) > 0
                     r == SentenceLoop(
                            splitIntoSentences(trimmedParagraph), 1, <<>>,
                            IF saved THEN getOverlap(currentChunk, overlap)
                                     ELSE previousChunkEnd,
                            IF saved
                              THEN Append(chunks, trim(previousChunkEnd \o currentChunk))
                              ELSE chunks,
                            targetSize, overlap)
                 IN ParagraphLoop(paragraphs, i + 1,
                                  IF NotBlank(r.sentenceChunk)
                                    THEN r.sentenceChunk \o <<"\n", "\n">>
                                    ELSE <<>>,
                                  r.previousChunkEnd, r.chunks, targetSize, overlap)
          ELSE ParagraphLoop(paragraphs, i + 1,
                             currentChunk \o trimmedParagraph \o <<"\n", "\n">>,
                             previousChunkEnd, chunks, targetSize, overlap)

\* chunkText(text, targetSize, overlap) of the text chunker: the chunk texts
chunkText(text, targetSize, overlap) ==
  IF ~NotBlank(text) THEN <<>>
  ELSE ParagraphLoop(SelectSeq(SplitParagraphs(text, <<>>), NotBlank), 1, <<>>, <<>>,
                     <<>>, targetSize, overlap)

ChunkTextCall ==
  /\ chk.pc = "idle"
  /\ \E text \in ChunkTexts, targetSize \in 1..MaxChunkSize, overlap \in 0..MaxOverlap :
       chk' = [pc |-> "chunked", fn |-> "chunkText", text |-> text,
               size |-> targetSize, overlap |-> overlap,
               chunks |-> chunkText(text, targetSize, overlap)]
  /\ UNCHANGED <<corpus, searchOut, sqlDocs, ragOut, chatOut, readOut, ingestVars,
                 processVars, rk, lex, ctx, lp, cache, bulk, mdl, store>>

\* currentChunk.slice(-overlap) of the upload route's chunkText; slice(-0) is
\* the whole text
sliceLast(text, overlap) ==
  IF overlap = 0 \/ Len(text) <= overlap THEN text
  ELSE SubSeq(text, Len(text) - overlap + 1, Len(text))

\* the paragraph loop of the upload route's chunkText, and its final chunk
RECURSIVE RouteParagraphLoop(_, _, _, _, _, _, _)
RouteParagraphLoop(paragraphs, i, currentChunk, previousChunkEnd, chunks, targetSize, overlap) ==
  IF i > Len(paragraphs)
    THEN IF NotBlank(currentChunk)
           THEN Append(chunks, trim(previousChunkEnd \o currentChunk))
           ELSE chunks
  ELSE LET trimmedParagraph == trim(paragraphs[i])
       IN IF Len(currentChunk) > 0
             /\ Len(currentChunk) + Len(trimmedParagraph) > targetSize
            THEN RouteParagraphLoop(paragraphs, i + 1, trimmedParagraph \o <<"\n", "\n">>,
                                    sliceLast(currentChunk, overlap),
                                    Append(chunks, trim(previousChunkEnd \o currentChunk)),
                                    targetSize, overlap)
          ELSE RouteParagraphLoop(paragraphs, i + 1,
                                  currentChunk \o trimmedParagraph \o <<"\n", "\n">>,
                                  previousChunkEnd, chunks, targetSize, overlap)

\* chunkText(text, targetSize, overlap) of documents.routes.ts: the chunk texts
routeChunkText(text, targetSize, overlap) ==
  IF ~NotBlank(text) THEN <<>>
  ELSE RouteParagraphLoop(SelectSeq(SplitParagraphs(text, <<>>), NotBlank), 1, <<>>,
                          <<>>, <<>>, targetSize, overlap)

RouteChunkTextCall ==
  /\ chk.pc = "idle"
  /\ \E text \in ChunkTexts, targetSize \in 1..MaxChunkSize, overlap \in 0..MaxOverlap :
       chk' = [pc |-> "chunked", fn |-> "routeChunkText", text |-> text,
               size |-> targetSize, overlap |-> overlap,
               chunks |-> routeChunkText(text, targetSize, overlap)]
  /\ UNCHANGED <<corpus, searchOut, sqlDocs, ragOut, chatOut, readOut, ingestVars,
                 processVars, rk, lex, ctx, lp, cache, bulk, mdl, store>>

\* chunkText of the text chunker on a text whose paragraph is reached with a
\* running buffer: a one-character paragraph, a blank line, then any text
BufferedChunkTextCall ==
  /\ chk.pc = "idle"
  /\ \E head \in ChunkAlphabet \ {" ", "\t", "\r", "\n"}, tail \in ChunkTexts,
        targetSize \in 1..MaxChunkSize, overlap \in 0..MaxOverlap :
       LET text == <<head, "\n", "\n">> \o tail
       IN chk' = [pc |-> "chunked", fn |-> "chunkText", text |-> text,
                  size |-> targetSize, overlap |-> overlap,
                  chunks |-> chunkText(text, targetSize, overlap)]
  /\ UNCHANGED <<corpus, searchOut, sqlDocs, ragOut, chatOut, readOut, ingestVars,
                 processVars, rk, lex, ctx, lp, cache, bulk, mdl, store>>

\* ------------------------------------------------------------------
\* The window loops of createChunks (documents.ingest.service.ts) and of
\* chunkText (corpus ragService.ts), one iteration per step, for any sizes.
\* ------------------------------------------------------------------

LoopTexts == UNION {[1..k -> ChunkAlphabet] : k \in 0..MaxLoopText}

\* String.prototype.slice(from, to): a negative index counts from the end
jsSlice(s, from, to) ==
  LET a == IF from < 0 THEN Max(Len(s) + from, 0) ELSE Min(from, Len(s))
      b == IF to < 0 THEN Max(Len(s) + to, 0) ELSE Min(to, Len(s))
  IN SubSeq(s, a + 1, b)

IdleLoop == [pc |-> "idle", fn |-> "none", clean |-> <<>>, chunkSize |-> 0,
             overlap |-> 0, start |-> 0, pushed |-> 0]

\* createChunks(text, chunkSize, overlap): normalizeText, then the loop
CallCreateChunks ==
  /\ lp.pc = "idle"
  /\ \E text \in LoopTexts, chunkSize \in 0..MaxChunkSize, overlap \in 0..MaxOverlap :
       lp' = [IdleLoop EXCEPT !.pc = "loop", !.fn = "createChunks",
                              !.clean = normalizeText(text),
                              !.chunkSize = chunkSize, !.overlap = overlap]
  /\ UNCHANGED <<corpus, searchOut, sqlDocs, ragOut, chatOut, readOut, ingestVars,
                 processVars, rk, lex, ctx, chk, cache, bulk, mdl, store>>

\* chunkText(text, chunkSize, overlap) of the corpus service: an empty text
\* returns at once, otherwise \r\n is replaced and the loop starts
CallCorpusChunkText ==
  /\ lp.pc = "idle"
  /\ \E text \in LoopTexts, chunkSize \in 0..MaxChunkSize, overlap \in 0..MaxOverlap :
       lp' = [IdleLoop EXCEPT !.pc = IF text = <<>> THEN "returned" ELSE "loop",
                              !.fn = "chunkText",
                              !.clean = ReplaceCrLf(text),
                              !.chunkSize = chunkSize, !.overlap = overlap]
  /\ UNCHANGED <<corpus, searchOut, sqlDocs, ragOut, chatOut, readOut, ingestVars,
                 processVars, rk, lex, ctx, chk, cache, bulk, mdl, store>>

\* one iteration of while (start < len). The count of pushed chunks stops at
\* MaxLoopPushed, and start stops at -(len + chunkSize): below it every slice
\* is empty and iterations differ in the value of start only.
LoopStep ==
  /\ lp.pc = "loop"
  /\ lp.start < Len(lp.clean)
  /\ LET len == Len(lp.clean)
         end == Min(lp.start + lp.chunkSize, len)
         piece == trim(jsSlice(lp.clean, lp.start, end))
         pushed == IF piece # <<>> THEN Min(lp.pushed + 1, MaxLoopPushed) ELSE lp.pushed
         next == IF lp.fn = "createChunks" THEN end - lp.overlap
                 ELSE Max(0, end - lp.overlap)
     IN lp' = IF end = len
                THEN [lp EXCEPT !.pc = "returned", !.pushed = pushed]
                ELSE [lp EXCEPT !.pushed = pushed,
                                !.start = Max(next, 0 - (len + lp.chunkSize))]
  /\ UNCHANGED <<corpus, searchOut, sqlDocs, ragOut, chatOut, readOut, ingestVars,
                 processVars, rk, lex, ctx, chk, cache, bulk, mdl, store>>

\* the loop condition is false: return chunks
LoopExit ==
  /\ lp.pc = "loop"
  /\ lp.start >= Len(lp.clean)
  /\ lp' = [lp EXCEPT !.pc = "returned"]
  /\ UNCHANGED <<corpus, searchOut, sqlDocs, ragOut, chatOut, readOut, ingestVars,
                 processVars, rk, lex, ctx, chk, cache, bulk, mdl, store>>

\* ------------------------------------------------------------------
\* The embedding cache of the SQL service: embeddingCache, getCachedEmbedding,
\* cacheEmbedding, generateEmbedding. Time is Date.now() in milliseconds.
\* ------------------------------------------------------------------

CACHE_TTL == 3600000

\* the texts looked up: two keys that differ in a trailing space
CacheTexts == {<<"a">>, <<"a", " ">>}

\* the steps Date.now() advances by between two calls: two of them reach the
\* TTL exactly
ClockSteps == {1, CACHE_TTL - 1}

\* no entry under a key
NoEntry == [present |-> FALSE, embedding |-> NoVector, timestamp |-> 0]

\* an entry may be returned at time now
FreshInclusive(entry, now) == entry.present /\ now - entry.timestamp <= CACHE_TTL

\* cached && Date.now() - cached.timestamp < CACHE_TTL
Fresh(entry, now) == entry.present /\ now - entry.timestamp < CACHE_TTL

\* getCachedEmbedding(text): [result, entries after the call]
getCachedEmbedding(entries, text, now) ==
  IF Fresh(entries[text], now)
    THEN [hit |-> TRUE, embedding |-> entries[text].embedding, entries |-> entries]
    ELSE [hit |-> FALSE, embedding |-> NoVector,
          entries |-> [entries EXCEPT ![text] = NoEntry]]

\* cacheEmbedding(text, embedding)
cacheEmbedding(entries, text, embedding, now) ==
  [entries EXCEPT ![text] = [present |-> TRUE, embedding |-> embedding,
                             timestamp |-> now]]

NoLookup == [called |-> FALSE, text |-> <<>>, hit |-> FALSE, embedding |-> NoVector,
             at |-> 0, inserted |-> NoEntry]

\* time passes between calls
Tick ==
  /\ cache.ticks < MaxTicks
  /\ \E d \in ClockSteps :
       cache' = [cache EXCEPT !.now = cache.now + d, !.ticks = cache.ticks + 1]
  /\ UNCHANGED <<corpus, searchOut, sqlDocs, ragOut, chatOut, readOut, ingestVars,
                 processVars, rk, lex, ctx, chk, lp, bulk, mdl, store>>

\* generateEmbedding(text) up to its await: the cached vector is returned, or
\* the remote call is sent. history keeps, per text, the last insertion (it is
\* never cleared).
generateEmbedding ==
  \E text \in CacheTexts :
    LET got == getCachedEmbedding(cache.entries, text, cache.now)
        look == [called |-> TRUE, text |-> text, hit |-> got.hit,
                 embedding |-> got.embedding, at |-> cache.now,
                 inserted |-> cache.history[text]]
    IN /\ got.hit \/ cache.pending[text] < MaxPending
       /\ cache' = [cache EXCEPT
                      !.entries = got.entries,
                      !.out = look,
                      !.pending[text] = IF got.hit THEN @ ELSE @ + 1]
       /\ UNCHANGED <<corpus, searchOut, sqlDocs, ragOut, chatOut, readOut, ingestVars,
                      processVars, rk, lex, ctx, chk, lp, bulk, mdl, store>>

\* generateEmbedding(text) after its await: the vector of the response is
\* cached; a failing remote call caches nothing
EmbeddingResponse ==
  \E text \in CacheTexts, outcome \in EmbeddingOutcomes :
    /\ cache.pending[text] > 0
    /\ IF generateEmbeddingThrows(outcome)
         THEN outcome.kind = "error"
              /\ cache' = [cache EXCEPT !.pending[text] = @ - 1]
         ELSE cache' = [cache EXCEPT
                          !.entries = cacheEmbedding(cache.entries, text, outcome.vector,
                                                     cache.now),
                          !.history = cacheEmbedding(cache.history, text, outcome.vector,
                                                     cache.now),
                          !.pending[text] = @ - 1]
    /\ UNCHANGED <<corpus, searchOut, sqlDocs, ragOut, chatOut, readOut, ingestVars,
                   processVars, rk, lex, ctx, chk, lp, bulk, mdl, store>>

\* ------------------------------------------------------------------
\* Bulk runs: the background loop of POST /proactive/scan-company and the
\* per-file loop of POST /ai/v2/ingest.
\* ------------------------------------------------------------------

BulkDocs == 1..MaxBulkDocs

IdleBulk == [pc |-> "idle", path |-> "none", n |-> 0, i |-> 0, processed |-> 0,
             errors |-> 0, results |-> <<>>, attempts |-> [d \in BulkDocs |-> 0],
             replied |-> FALSE]

\* one iteration without the try/catch: a throw leaves the loop
AttemptUncaught(b, ok) ==
  IF ok
    THEN [b EXCEPT !.i = @ + 1, !.attempts[b.i + 1] = @ + 1,
                   !.processed = IF b.path = "scan-company" THEN @ + 1 ELSE @,
                   !.results = IF b.path = "ingest" THEN Append(@, "docId") ELSE @]
    ELSE [b EXCEPT !.i = b.n, !.attempts[b.i + 1] = @ + 1]

\* one iteration of for (const doc of documents) { try {...} catch {...} }:
\* scan-company counts processed++ or errors++, ingest pushes a result with a
\* docId or with an error
Attempt(b, ok) ==
  [b EXCEPT !.i = @ + 1, !.attempts[b.i + 1] = @ + 1,
            !.processed = IF b.path = "scan-company" /\ ok THEN @ + 1 ELSE @,
            !.errors = IF b.path = "scan-company" /\ ~ok THEN @ + 1 ELSE @,
            !.results = IF b.path = "ingest"
                          THEN Append(@, IF ok THEN "docId" ELSE "error") ELSE @]

\* POST /proactive/scan-company: the active documents of the company are
\* selected and the background loop starts
PostScanCompany ==
  /\ bulk.pc = "idle"
  /\ \E n \in 0..MaxBulkDocs :
       bulk' = [IdleBulk EXCEPT !.pc = "loop", !.path = "scan-company", !.n = n]
  /\ UNCHANGED <<corpus, searchOut, sqlDocs, ragOut, chatOut, readOut, ingestVars,
                 processVars, rk, lex, ctx, chk, lp, cache, mdl, store>>

\* the reply "processing" of scan-company is sent while the loop runs
ScanCompanyReply ==
  /\ bulk.path = "scan-company"
  /\ ~bulk.replied
  /\ bulk' = [bulk EXCEPT !.replied = TRUE]
  /\ UNCHANGED <<corpus, searchOut, sqlDocs, ragOut, chatOut, readOut, ingestVars,
                 processVars, rk, lex, ctx, chk, lp, cache, mdl, store>>

\* POST /ai/v2/ingest with n >= 1 files (no file is answered 400)
PostAiV2IngestFiles ==
  /\ bulk.pc = "idle"
  /\ \E n \in 1..MaxBulkDocs :
       bulk' = [IdleBulk EXCEPT !.pc = "loop", !.path = "ingest", !.n = n]
  /\ UNCHANGED <<corpus, searchOut, sqlDocs, ragOut, chatOut, readOut, ingestVars,
                 processVars, rk, lex, ctx, chk, lp, cache, mdl, store>>

\* the next document: analyzeDocumentOnUpload / ingestBufferAsDocument returns
\* or throws
BulkAttempt ==
  /\ bulk.pc = "loop"
  /\ bulk.i < bulk.n
  /\ \E ok \in BOOLEAN : bulk' = Attempt(bulk, ok)
  /\ UNCHANGED <<corpus, searchOut, sqlDocs, ragOut, chatOut, readOut, ingestVars,
                 processVars, rk, lex, ctx, chk, lp, cache, mdl, store>>

\* the loop is over: "Scan complete" is logged / { ok, results } is sent
BulkComplete ==
  /\ bulk.pc = "loop"
  /\ bulk.i = bulk.n
  /\ bulk' = [bulk EXCEPT !.pc = "complete",
                          !.replied = IF bulk.path = "ingest" THEN TRUE ELSE @]
  /\ UNCHANGED <<corpus, searchOut, sqlDocs, ragOut, chatOut, readOut, ingestVars,
                 processVars, rk, lex, ctx, chk, lp, cache, mdl, store>>

\* ------------------------------------------------------------------
\* Embedding models: ingestDocumentById tags each ChunkEmbeddings row with the
\* model it used; askWithRag embeds the question and scores the fetched rows.
\* ------------------------------------------------------------------

DefaultEmbeddingModel == "text-embedding-3-small"

EmbeddingModels == {"text-embedding-3-small", "text-embedding-3-large"}

\* process.env.OPENAI_EMBEDDING_MODEL: unset ("") or a model name
EnvValues == {""} \cup EmbeddingModels

ModelChunkIds == 1..MaxModelChunks

\* process.env.OPENAI_EMBEDDING_MODEL || 'text-embedding-3-small'
IngestModel(env) == IF env = "" THEN DefaultEmbeddingModel ELSE env

\* the model of generateEmbedding: the literal 'text-embedding-3-small'
QueryModel(env) == DefaultEmbeddingModel

\* the rows getChunksFromDatabase hands to the ranking: every row joined with
\* ChunkEmbeddings, whatever its Model column holds
RowsToScore(rows, queryModel) == rows

\* the service is started with OPENAI_EMBEDDING_MODEL set or unset
Deploy ==
  /\ \E env \in EnvValues : mdl' = [mdl EXCEPT !.env = env]
  /\ mdl.env # mdl'.env
  /\ UNCHANGED <<corpus, searchOut, sqlDocs, ragOut, chatOut, readOut, ingestVars,
                 processVars, rk, lex, ctx, chk, lp, cache, bulk, store>>

\* one pass of the loop of ingestDocumentById: embedText with the configured
\* model, insertChunkEmbedding(chunkId, embedding, 'openai', model)
IngestTagged ==
  /\ \E chunkId \in ModelChunkIds :
       /\ \A r \in mdl.rows : r.chunkId # chunkId
       /\ mdl' = [mdl EXCEPT !.rows = @ \cup {[chunkId |-> chunkId,
                                              model |-> IngestModel(mdl.env)]}]
  /\ UNCHANGED <<corpus, searchOut, sqlDocs, ragOut, chatOut, readOut, ingestVars,
                 processVars, rk, lex, ctx, chk, lp, cache, bulk, store>>

\* askWithRag: getChunksFromDatabase, generateEmbedding(question), one
\* cosineSimilarity per fetched row
AskScores ==
  /\ mdl.rows # {}
  /\ mdl' = [mdl EXCEPT !.queryModel = QueryModel(mdl.env),
                        !.scored = RowsToScore(mdl.rows, QueryModel(mdl.env))]
  /\ UNCHANGED <<corpus, searchOut, sqlDocs, ragOut, chatOut, readOut, ingestVars,
                 processVars, rk, lex, ctx, chk, lp, cache, bulk, store>>

\* ------------------------------------------------------------------
\* The corpus file step by step: loadCorpus, saveCorpus and
\* upsertDocumentWithChunks (corpusStore.ts) under concurrent calls of
\* ingestBufferAsDocument and search. Every await is a point where another
\* call may run.
\* ------------------------------------------------------------------

StoreProcs == 1..MaxStoreProcs

\* the documents and chunks of createEmptyCorpus()
EmptyFile == [documents |-> {}, chunks |-> {}]

IdleStoreProc == [pc |-> "idle", kind |-> "none", docId |-> NULL, n |-> 0,
                  local |-> EmptyFile, readThrew |-> FALSE]

\* the chunk ids `${docId}_c${i}` of a document with n chunks
ChunkIdsOf(docId, n) == {<<docId, i>> : i \in 0..(n - 1)}

\* corpus.documents[doc.docId] = doc and corpus.chunks[c.chunkId] = c for each chunk
UpsertInto(local, docId, n) ==
  [documents |-> local.documents \cup {docId},
   chunks |-> local.chunks \cup ChunkIdsOf(docId, n)]

\* ingestBufferAsDocument up to its call of upsertDocumentWithChunks: a new
\* docId (crypto.randomUUID) and n chunks
BeginIngest(p) ==
  /\ store.procs[p].pc = "idle"
  /\ \E n \in 1..MaxStoreChunks :
       store' = [store EXCEPT !.procs[p] =
                   [IdleStoreProc EXCEPT !.pc = "load", !.kind = "ingest",
                                         !.docId = p, !.n = n]]
  /\ UNCHANGED <<corpus, searchOut, sqlDocs, ragOut, chatOut, readOut, ingestVars,
                 processVars, rk, lex, ctx, chk, lp, cache, bulk, mdl>>

\* search(query, topK, filters) up to its call of loadCorpus
BeginSearch(p) ==
  /\ store.procs[p].pc = "idle"
  /\ store' = [store EXCEPT !.procs[p] =
                 [IdleStoreProc EXCEPT !.pc = "load", !.kind = "search"]]
  /\ UNCHANGED <<corpus, searchOut, sqlDocs, ragOut, chatOut, readOut, ingestVars,
                 processVars, rk, lex, ctx, chk, lp, cache, bulk, mdl>>

\* loadCorpus: readFile and JSON.parse succeed
ReadCorpus(p) ==
  /\ store.procs[p].pc = "load"
  /\ store' = [store EXCEPT !.procs[p].pc = "loaded",
                            !.procs[p].local = store.file]
  /\ UNCHANGED <<corpus, searchOut, sqlDocs, ragOut, chatOut, readOut, ingestVars,
                 processVars, rk, lex, ctx, chk, lp, cache, bulk, mdl>>

\* loadCorpus: readFile or JSON.parse throws (no file, a read error, a file
\* read while it is being written): the catch block makes an empty corpus
ReadCorpusThrows(p) ==
  /\ store.procs[p].pc = "load"
  /\ store' = [store EXCEPT !.procs[p].pc = "catch",
                            !.procs[p].local = EmptyFile,
                            !.procs[p].readThrew = TRUE]
  /\ UNCHANGED <<corpus, searchOut, sqlDocs, ragOut, chatOut, readOut, ingestVars,
                 processVars, rk, lex, ctx, chk, lp, cache, bulk, mdl>>

\* the catch block of loadCorpus: await saveCorpus(empty); return empty
SaveEmptyCorpus(p) ==
  /\ store.procs[p].pc = "catch"
  /\ store' = [store EXCEPT !.file = EmptyFile, !.procs[p].pc = "loaded"]
  /\ UNCHANGED <<corpus, searchOut, sqlDocs, ragOut, chatOut, readOut, ingestVars,
                 processVars, rk, lex, ctx, chk, lp, cache, bulk, mdl>>

\* upsertDocumentWithChunks after loadCorpus: the document and its chunks are
\* put into the loaded corpus and saveCorpus writes it over the file
SaveCorpus(p) ==
  /\ store.procs[p].pc = "loaded"
  /\ store.procs[p].kind = "ingest"
  /\ LET next == UpsertInto(store.procs[p].local, store.procs[p].docId, store.procs[p].n)
     IN store' = [store EXCEPT !.file = next, !.procs[p].local = next,
                               !.procs[p].pc = "done"]
  /\ UNCHANGED <<corpus, searchOut, sqlDocs, ragOut, chatOut, readOut, ingestVars,
                 processVars, rk, lex, ctx, chk, lp, cache, bulk, mdl>>

\* search after loadCorpus: it ranks the loaded chunks and returns
SearchReturns(p) ==
  /\ store.procs[p].pc = "loaded"
  /\ store.procs[p].kind = "search"
  /\ store' = [store EXCEPT !.procs[p].pc = "done"]
  /\ UNCHANGED <<corpus, searchOut, sqlDocs, ragOut, chatOut, readOut, ingestVars,
                 processVars, rk, lex, ctx, chk, lp, cache, bulk, mdl>>

\* ------------------------------------------------------------------
\* Specifications
\* ------------------------------------------------------------------

NoIdentity ==
  [id |-> NULL, role |-> "", companyId |-> NULL, departmentId |-> NULL, divisionId |-> NULL]

NoScope ==
  [companyId |-> NULL, department |-> NULL, division |-> NULL,
   ownerUserId |-> NULL, documentIds |-> {}]

Init ==
  /\ corpus = createEmptyCorpus
  /\ searchOut = [called |-> FALSE, filters |-> NoFilters, chunks |-> {}]
  /\ sqlDocs = {}
  /\ ragOut = [op |-> "none", user |-> NULL, scope |-> NoScope, docs |-> {}]
  /\ chatOut = [op |-> "none", user |-> NoIdentity, filters |-> NoBodyFilters,
                scope |-> NoScope]
  /\ readOut = [op |-> "none", user |-> NoIdentity, docs |-> {}]
  /\ chunkTbl = {}
  /\ embTbl = {}
  /\ ing = [p \in Procs |-> [pc |-> "idle", documentId |-> NULL, n |-> 0, i |-> 0,
                              prior |-> {}, requests |-> 0]]
  /\ docStatus = [d \in DocIds |-> "absent"]
  /\ docChunkTbl = {}
  /\ job = [j \in Jobs |-> IdleJob]
  /\ rk = IdleRank
  /\ lex = IdleLex
  /\ ctx = IdleContext
  /\ chk = IdleChunker
  /\ lp = IdleLoop
  /\ cache = [entries |-> [t \in CacheTexts |-> NoEntry],
              history |-> [t \in CacheTexts |-> NoEntry],
              pending |-> [t \in CacheTexts |-> 0],
              now |-> 0, ticks |-> 0, out |-> NoLookup]
  /\ bulk = IdleBulk
  /\ mdl = [env |-> "", rows |-> {}, queryModel |-> "", scored |-> {}]
  /\ store = [file |-> EmptyFile, procs |-> [p \in StoreProcs |-> IdleStoreProc]]

\* the corpus back end: ingestion and search
NextCorpus ==
  \/ PostAiV2Ingest
  \/ IngestDirect
  \/ Search

SpecCorpus == Init /\ [][NextCorpus]_vars

\* the SQL back end: upload and the RAG fetch
NextRag ==
  \/ UploadDocument
  \/ AskWithRag
  \/ PostAiChat

SpecRag == Init /\ [][NextRag]_vars

\* the scope the chat route builds
NextScope == PostAiV2Chat

SpecScope == Init /\ [][NextScope]_vars

\* the document-reading routes
NextRead ==
  \/ UploadDocument
  \/ GetDocuments
  \/ GetDocumentById
  \/ GetDocumentChunks

SpecRead == Init /\ [][NextRead]_vars

\* concurrent calls of ingestDocumentById
NextIngest ==
  \E p \in Procs :
    \/ StartIngest(p)
    \/ deleteChunksAndEmbeddingsForDocument(p)
    \/ insertChunk(p)
    \/ embedText(p)
    \/ insertChunkEmbedding(p)
    \/ FinishIngest(p)
    \/ FailIngest(p)

SpecIngest == Init /\ [][NextIngest]_vars

\* concurrent uploads and processing jobs
NextProcess ==
  \E j \in Jobs :
    \/ PostDocumentsInsert(j)
    \/ PostDocumentsReject(j)
    \/ PostDocumentsAccept(j)
    \/ StartProcessDocument(j)
    \/ ExtractText(j)
    \/ ExtractNoText(j)
    \/ InsertDocumentChunk(j)
    \/ MarkProcessed(j)
    \/ ProcessThrows(j)
    \/ CatchMarkError(j)
    \/ CatchUpdateFails(j)

SpecProcess == Init /\ [][NextProcess]_vars

\* one ranking request, then the answer step on its list
NextRank ==
  \/ Search_Rank
  \/ answerWithLLM
  \/ askWithRag_Rank
  \/ semanticSearch_Rank
  \/ PostAiV2Chat_TopK

SpecRank == Init /\ [][NextRank]_vars

\* one search over a pair of chunks
NextLex == Search_Pair

SpecLex == Init /\ [][NextLex]_vars

\* one call of buildContext
NextContext == buildContext

SpecContext == Init /\ [][NextContext]_vars

\* one call of a chunker
NextChunk ==
  \/ CreateChunks
  \/ ChunkTextCall
  \/ RouteChunkTextCall

SpecChunk == Init /\ [][NextChunk]_vars

\* one call of a paragraph chunker, the text chunker with a running buffer
NextBuffered ==
  \/ BufferedChunkTextCall
  \/ RouteChunkTextCall

SpecBuffered == Init /\ [][NextBuffered]_vars

\* one call of a window chunker; a call that can take an iteration takes it
NextLoop ==
  \/ CallCreateChunks
  \/ CallCorpusChunkText
  \/ LoopStep
  \/ LoopExit

SpecLoop == Init /\ [][NextLoop]_vars /\ WF_vars(LoopStep) /\ WF_vars(LoopExit)

\* calls of generateEmbedding as time passes
NextCache ==
  \/ Tick
  \/ generateEmbedding
  \/ EmbeddingResponse

SpecCache == Init /\ [][NextCache]_vars

\* one bulk run of either route
NextBulk ==
  \/ PostScanCompany
  \/ ScanCompanyReply
  \/ PostAiV2IngestFiles
  \/ BulkAttempt
  \/ BulkComplete

SpecBulk == Init /\ [][NextBulk]_vars

\* ingestions and questions under changing configuration
NextModels ==
  \/ Deploy
  \/ IngestTagged
  \/ AskScores

SpecModels == Init /\ [][NextModels]_vars

\* concurrent ingestions and searches on the corpus file
NextStore ==
  \E p \in StoreProcs :
    \/ BeginIngest(p)
    \/ BeginSearch(p)
    \/ ReadCorpus(p)
    \/ ReadCorpusThrows(p)
    \/ SaveEmptyCorpus(p)
    \/ SaveCorpus(p)
    \/ SearchReturns(p)

SpecStore == Init /\ [][NextStore]_vars

\* ------------------------------------------------------------------
\* Claims
\* ------------------------------------------------------------------

\* the documents of every row shape, standing for any content of the store
AnyRows ==
  [id : DocIds, companyId : Tenants, departmentId : Opt(Depts),
   divisionId : Opt(Divs), ownerUserId : Users]

RecognisedRoles == {"SUPER_ADMIN", "MASTER", "MANAGER", "COORDINATOR", "USER"}

\* C1: every chunk a candidate fetch returns belongs to a document whose tenant
\* is the tenant of the scope it was given, on the corpus search and on the SQL
\* fetch alike.
C1_FetchWithinTenant ==
  /\ searchOut.called =>
       \A k \in searchOut.chunks : \A d \in DocOf(corpus, k) :
         d.companyId = searchOut.filters.companyId
  /\ ragOut.op # "none" =>
       \A r \in ragOut.docs : r.companyId = ragOut.scope.companyId

\* C2: when the scope of a candidate fetch carries a department, a division or
\* an owner, every document returned has that department, that division and
\* that owner.
C2_FetchWithinScope ==
  ragOut.op # "none" =>
    \A r \in ragOut.docs :
      /\ ragOut.scope.department # NULL => r.departmentId = ragOut.scope.department
      /\ ragOut.scope.division # NULL => r.divisionId = ragOut.scope.division
      /\ ragOut.scope.ownerUserId # NULL => r.ownerUserId = ragOut.scope.ownerUserId

\* C3: for a caller who is not the platform superuser, the scope built for a
\* query carries the tenant of the caller's identity, whatever the request
\* body holds.
C3_ScopeTenantIsCallers ==
  (chatOut.op = "chat" /\ chatOut.user.role # "SUPER_ADMIN"
     /\ chatOut.user.companyId # NULL) =>
    chatOut.scope.companyId = chatOut.user.companyId

\* C4: no document-reading reply to a platform superuser holds a document.
C4_SuperuserReadsNothing ==
  (readOut.op # "none" /\ readOut.user.role = "SUPER_ADMIN") => readOut.docs = {}

\* C5: a caller with an unrecognised role gets the scope of a regular user with
\* the same identity: the caller's tenant and the caller as owner.
C5_UnknownRoleIsRegularUser ==
  (chatOut.op = "chat" /\ chatOut.user.role \notin RecognisedRoles) =>
    chatOut.scope = ChatScope([chatOut.user EXCEPT !.role = "USER"], chatOut.filters)

\* C6: a department manager whose request names a department other than their
\* own receives no candidate.
C6_ManagerOtherDepartmentEmpty ==
  (/\ ragOut.op = "chat"
   /\ ragOut.user.role = "MANAGER"
   /\ ragOut.user.departmentId # NULL
   /\ ragOut.scope.department # NULL
   /\ ragOut.scope.department # ragOut.user.departmentId) =>
    ragOut.docs = {}

\* C7: the candidates under the identity's scope with the caller's filters are
\* among the candidates under the identity's scope with no filters, for any
\* content of the store.
C7_FiltersOnlyNarrow ==
  chatOut.op = "chat" =>
    getChunksFromDatabase(AnyRows, chatOut.scope) \subseteq
      getChunksFromDatabase(AnyRows, ChatScope(chatOut.user, NoBodyFilters))

\* C8: every document in the store carries a tenant id.
C8_EveryDocumentHasTenant ==
  \A d \in corpus.documents : d.companyId # NULL

\* C9: when an ingestion of a document has failed, the store holds for that
\* document either exactly the complete prior chunks and embeddings or exactly
\* the complete new ones.
C9_UpsertAllOrNothing ==
  \A p \in Procs :
    ing[p].pc = "failed" =>
      \/ /\ ChunksOf(chunkTbl, ing[p].documentId) = ing[p].prior
         /\ ChunksOf(embTbl, ing[p].documentId) = ing[p].prior
      \/ /\ ChunksOf(chunkTbl, ing[p].documentId) = NewRows(p)
         /\ ChunksOf(embTbl, ing[p].documentId) = NewRows(p)

\* a call is inside its delete-then-insert sequence: the delete is done and the
\* call has not ended
InSequence(p) == ing[p].pc \in {"loop", "inserted", "embedded"}

\* C10: no two ingestions of the same document are inside their
\* delete-then-insert sequences at the same time.
C10_SameDocumentSerialized ==
  \A p, q \in Procs :
    (p # q /\ InSequence(p) /\ InSequence(q)) => ing[p].documentId # ing[q].documentId

\* the rows a processing job writes for its document: one per chunk index
JobRows(j) ==
  {[documentId |-> job[j].documentId, chunkIndex |-> k, run |-> j] :
     k \in 0..(job[j].n - 1)}

\* C11: when a processing of a document that already has chunks ends with
\* success, the store holds for that document exactly the chunks of this
\* processing: none of an earlier generation, each chunk index once.
C11_ReingestReplaces ==
  [][\A j \in Jobs :
       (/\ job[j].pc = "insert"
        /\ job'[j].pc = "ended"
        /\ job'[j].result = "processed"
        /\ \E c \in DocChunksOf(docChunkTbl, job[j].documentId) : c.run # j) =>
         DocChunksOf(docChunkTbl', job[j].documentId) = JobRows(j)]_vars

\* C12: a document is in status 'processing' only while a job is still working
\* on it: once every job on the document has ended, the status has left
\* 'processing'.
C12_ProcessingEnds ==
  \A d \in DocIds :
    docStatus[d] = "processing" =>
      \E j \in Jobs : job[j].documentId = d /\ job[j].pc \notin {"idle", "ended"}

\* the request ranked its candidates with a list as outcome
Ranked == rk.pc \in {"ranked", "answered"} /\ rk.path \in {"search", "askWithRag", "semanticSearch"}

\* C13: when the answer step has run on an empty ranked list, the answer is the
\* fixed no-matching-documents answer and the LLM was not called.
C13_EmptyListNoLlmCall ==
  (rk.pc = "answered" /\ rk.path \in {"search", "askWithRag"} /\ rk.results = <<>>) =>
    (rk.answer = "fixed" /\ rk.llmCalls = 0)

\* C14: when the remote embedding call for the query failed or gave no vector,
\* the request has failed: nothing was ranked.
C14_NoVectorFailsRequest ==
  rk.remote \in {"error", "none"} => rk.pc = "failed"

\* C15: the ranked list is never longer than topK (than 0 when topK is
\* negative), for whole, zero, negative and fractional topK.
C15_AtMostTopK ==
  (Ranked /\ ~rk.topK.nan) => 2 * Len(rk.results) <= Max(rk.topK.h, 0)

\* C16: no result of a ranking has a score below the 0.35 floor, on any path.
C16_NoResultBelowFloor ==
  Ranked => \A i \in 1..Len(rk.results) : rk.results[i].score >= ScoreFloor * 1000

\* C17: the topK a request truncates with is a whole number from 1 to 20, on
\* every entry point.
C17_TopKClamped ==
  rk.path # "none" =>
    /\ ~rk.topK.nan
    /\ rk.topK.h % 2 = 0
    /\ rk.topK.h >= 2 * 1
    /\ rk.topK.h <= 2 * AiV2MaxTopK

\* C18: of two chunks with the same embedding of which exactly one contains
\* the query string verbatim, that one has the strictly greater final score and
\* stands in the ranked list before the other.
C18_LiteralChunkRanksHigher ==
  lex.pc = "ranked" =>
    \A i, j \in 1..Len(lex.cands) :
      (/\ includes(lex.cands[i].text, lex.query)
       /\ ~includes(lex.cands[j].text, lex.query)) =>
        /\ finalScore(lex.cands[i], lex.queryEmbedding, lex.query)
             > finalScore(lex.cands[j], lex.queryEmbedding, lex.query)
        /\ \E m \in 1..Len(lex.results) :
             /\ lex.results[m].chunk = lex.cands[i]
             /\ \A n \in 1..Len(lex.results) :
                  lex.results[n].chunk = lex.cands[j] => m < n

\* C19: the context buildContext returns is at most maxChars characters long,
\* and every chunk it includes is there with its whole text.
C19_ContextWithinMaxChars ==
  ctx.pc = "built" =>
    /\ ctx.length <= ctx.maxChars
    /\ \A k \in 1..Len(ctx.parts) :
         ctx.parts[k].snippet = ctx.results[ctx.parts[k].result]

\* the texts obtained by concatenating chunks in index order with an overlap
\* removed at each joint: any length k for which the last k characters of the
\* text so far are the first k characters of the next chunk
RECURSIVE Reconstructions(_)
Reconstructions(chunks) ==
  IF chunks = <<>> THEN {<<>>}
  ELSE IF Len(chunks) = 1 THEN {chunks[1]}
  ELSE LET c == chunks[Len(chunks)]
       IN {r \o SubSeq(c, k + 1, Len(c)) :
             <<r, k>> \in {<<r, k>> \in Reconstructions(SubSeq(chunks, 1, Len(chunks) - 1))
                                          \X (0..Len(c)) :
                             /\ k <= Len(r)
                             /\ SubSeq(r, Len(r) - k + 1, Len(r)) = SubSeq(c, 1, k)}}

\* C20: the chunks a chunker emits, concatenated in index order with the
\* overlaps removed, give back the source text.
C20_ChunksCoverText ==
  chk.pc = "chunked" => chk.text \in Reconstructions(chk.chunks)

\* the text without its white space
StripSpace(s) == SelectSeq(s, LAMBDA c : ~IsSpace(c))

\* C20 as amended: the chunks a chunker emits, concatenated in index order with
\* the overlaps removed, give back the source text up to white space: its other
\* characters all appear, in their order, and nothing else does.
C20_ChunksCoverTextUpToSpace ==
  chk.pc = "chunked" =>
    StripSpace(chk.text) \in {StripSpace(r) : r \in Reconstructions(chk.chunks)}

\* a text was cut into several chunks that overlap
C20_Witness ==
  /\ chk.pc = "chunked"
  /\ Len(chk.chunks) >= 2
  /\ chk.overlap > 0
  /\ StripSpace(chk.text) # chk.text

\* the paragraphs of a text as the chunkers see them
ParagraphsOf(text) ==
  LET ps == SelectSeq(SplitParagraphs(text, <<>>), NotBlank)
  IN {trim(ps[i]) : i \in 1..Len(ps)}

\* C21: a paragraph longer than 1.5 x targetSize that contains a sentence
\* boundary is never whole inside one chunk (checked where the overlap is one
\* character, so that a chunk cannot hold it through the overlap).
C21_LargeParagraphSplit ==
  (chk.pc = "chunked" /\ chk.fn \in {"chunkText", "routeChunkText"} /\ chk.overlap = 1) =>
    \A p \in ParagraphsOf(chk.text) :
      (2 * Len(p) > 3 * chk.size /\ Len(splitIntoSentences(p)) >= 2) =>
        \A k \in 1..Len(chk.chunks) : ~includes(chk.chunks[k], p)

\* the sizes of the call satisfy targetSize > overlap >= 0
ValidSizes == lp.chunkSize > lp.overlap /\ lp.overlap >= 0

\* C22: a chunking call that has entered its loop returns, and a call with
\* invalid sizes never enters the loop (it is rejected first).
C22_ChunkingTerminates ==
  [](lp.pc = "loop" => (ValidSizes /\ <>(lp.pc = "returned")))

\* C23: a request with an empty or blank question has failed without a
\* storage read, an embedding call or an LLM call, on every query function.
C23_BlankQuestionRejected ==
  (rk.path \in {"search", "askWithRag", "semanticSearch"} /\ IsBlank(rk.query)) =>
    /\ rk.pc = "failed"
    /\ rk.reads = 0
    /\ rk.remote = "uncalled"
    /\ rk.llmCalls = 0

\* a lookup that returned a vector returned the vector last inserted for
\* exactly that text, inserted less than the TTL before the lookup
HitIsFresh ==
  (cache.out.called /\ cache.out.hit) =>
    /\ cache.out.inserted.present
    /\ cache.out.embedding = cache.out.inserted.embedding
    /\ cache.out.at - cache.out.inserted.timestamp < CACHE_TTL

\* an entry leaves the cache only when its age has reached the TTL
RemovedOnlyExpired ==
  \A t \in CacheTexts :
    (cache.entries[t].present /\ ~cache'.entries[t].present) =>
      cache.now - cache.entries[t].timestamp >= CACHE_TTL

\* C24: a cache lookup returns a vector only from an entry for exactly that
\* text younger than the TTL, and entries are removed only once expired.
C24_CacheHitsAreFresh ==
  []HitIsFresh /\ [][RemovedOnlyExpired]_vars

\* a lookup one millisecond before the TTL hit, and a later one removed the
\* expired entry
C24_Witness ==
  /\ cache.out.called
  /\ cache.out.hit
  /\ cache.out.at - cache.out.inserted.timestamp = CACHE_TTL - 1

\* C25: an ingestion that produced n >= 1 chunks and completed has issued
\* exactly one remote embedding request.
C25_OneEmbeddingRequest ==
  \A p \in Procs :
    (ing[p].pc = "done" /\ ing[p].n >= 1) => ing[p].requests = 1

\* the number of entries of results equal to kind
CountResults(results, kind) ==
  Cardinality({k \in 1..Len(results) : results[k] = kind})

BulkProcessed ==
  IF bulk.path = "scan-company" THEN bulk.processed
  ELSE CountResults(bulk.results, "docId")

BulkFailed ==
  IF bulk.path = "scan-company" THEN bulk.errors
  ELSE CountResults(bulk.results, "error")

\* C26: a failing document does not end a bulk run: no document is attempted
\* twice, and a completed run has attempted every document once and counts
\* processed + failed = the number of documents.
C26_BulkToleratesFailures ==
  /\ \A d \in BulkDocs : bulk.attempts[d] <= 1
  /\ bulk.pc = "complete" =>
       /\ \A d \in 1..bulk.n : bulk.attempts[d] = 1
       /\ BulkProcessed + BulkFailed = bulk.n

\* a completed run in which a document failed and a document was processed
C26_Witness ==
  /\ bulk.pc = "complete"
  /\ BulkFailed >= 1
  /\ BulkProcessed >= 1
  /\ bulk.n >= 2

C28_ConcurrentIngestionsKept ==
  \A p, q \in StoreProcs :
    (/\ p # q
     /\ store.procs[p].kind = "ingest" /\ store.procs[p].pc = "done"
     /\ store.procs[q].kind = "ingest" /\ store.procs[q].pc = "done"
     /\ \A r \in StoreProcs : ~store.procs[r].readThrew) =>
      /\ {store.procs[p].docId, store.procs[q].docId} \subseteq store.file.documents
      /\ ChunkIdsOf(store.procs[p].docId, store.procs[p].n) \subseteq store.file.chunks
      /\ ChunkIdsOf(store.procs[q].docId, store.procs[q].n) \subseteq store.file.chunks

\* a step of a search leaves the corpus file as it was
SearchStepKeepsFile ==
  \A p \in StoreProcs :
    (store.procs[p].kind = "search" /\ store'.procs[p] # store.procs[p]) =>
      store'.file = store.file

\* C30: a search never changes the stored documents and chunks, whatever the
\* read of the corpus file gives and whatever runs beside it.
C30_SearchIsReadOnly ==
  [][SearchStepKeepsFile]_vars

\* C29: to a caller who belongs to a tenant and is not the platform superuser,
\* the detail of a document by id and the chunk listing of a document by id
\* reply only with content of documents of the caller's tenant.
C29_ReadsStayInTenant ==
  (/\ readOut.op \in {"detail", "chunks"}
   /\ readOut.user.role # "SUPER_ADMIN"
   /\ readOut.user.companyId # NULL) =>
    \A r \in readOut.docs : r.companyId = readOut.user.companyId

====
